---- MODULE Spec2Model ----
(***************************************************************************)
(* Model of cmd/utils/compiler.go of cluster-forge: the Hook Filter        *)
(* (shouldSkipFile), the Object Compiler (CreateCrossplaneObject), the     *)
(* Package Compiler (CreatePackage) and the Whitespace Normalizer          *)
(* (removeEmptyLines).                                                     *)
(*                                                                         *)
(* A Go string is a sequence of one-character strings.  Positions are      *)
(* 1-based: position p names the gap before the p-th character, so         *)
(* Len(s)+1 is end of text.                                                *)
(***************************************************************************)
EXTENDS Integers, Sequences, FiniteSets, TLC

VARIABLES
    pc,        \* position of the running call
    name,      \* platformpackage.Name
    kind,      \* platformpackage.Kind
    buf,       \* platformpackage.Content (bytes.Buffer)
    files,     \* the listing os.ReadDir returned
    idx,       \* index of the range loop over files
    data,      \* the content read at line 103 / the content argument
    fs,        \* the output artifacts on disk, by stream designator
    open,      \* the output handles that are open
    routed,    \* the successful temp.Execute calls, in order
    nerrs,     \* the error values removeEmptyLines returned, in order
    ret,       \* the value the call handed to its caller
    iofail,    \* an I/O operation of this call has failed
    disk,      \* the entries of working/<name> on disk
    ftemp,     \* the parsed footer template
    hist       \* the artifact after each successful removeEmptyLines

vars == <<pc, name, kind, buf, files, idx, data, fs, open, routed, nerrs, ret,
          iofail, disk, ftemp, hist>>

----------------------------------------------------------------------------
(* Bounds of the model. *)

MaxFiles == 2
MaxNormLen == 6
MaxPkgLen == 4

----------------------------------------------------------------------------
(* strings *)

RECURSIVE IndexFrom(_, _, _)
\* first position >= p at which sub occurs in s, 0 when there is none
IndexFrom(s, sub, p) ==
    IF p + Len(sub) - 1 > Len(s) THEN 0
    ELSE IF SubSeq(s, p, p + Len(sub) - 1) = sub THEN p
    ELSE IndexFrom(s, sub, p + 1)

\* strings.Contains
Contains(s, sub) == IndexFrom(s, sub, 1) # 0

RECURSIVE Split(_, _)
\* strings.Split(s, sep) for a one-character sep
Split(s, sep) ==
    LET at == IndexFrom(s, <<sep>>, 1)
    IN  IF at = 0 THEN <<s>>
        ELSE <<SubSeq(s, 1, at - 1)>> \o Split(SubSeq(s, at + 1, Len(s)), sep)

RECURSIVE Join(_, _)
\* strings.Join(parts, sep) for a one-character sep
Join(parts, sep) ==
    IF Len(parts) = 0 THEN <<>>
    ELSE IF Len(parts) = 1 THEN parts[1]
    ELSE parts[1] \o <<sep>> \o Join(Tail(parts), sep)

HasSuffix(s, suffix) ==
    /\ Len(s) >= Len(suffix)
    /\ SubSeq(s, Len(s) - Len(suffix) + 1, Len(s)) = suffix

\* strings.TrimSuffix
TrimSuffix(s, suffix) ==
    IF HasSuffix(s, suffix) THEN SubSeq(s, 1, Len(s) - Len(suffix)) ELSE s

----------------------------------------------------------------------------
(* removeEmptyLines: the regular expression                                *)
(*     (?m)^\s*$[\r\n]*|[\r\n]+\s+\z                                       *)
(* under Go's leftmost-first matching, and ReplaceAllString(data, "").     *)

\* \s of RE2: [\t\n\f\r ]
IsSpace(c) == c \in {"\t", "\n", "\f", "\r", " "}

\* [\r\n]
IsNewline(c) == c \in {"\r", "\n"}

\* (?m)^ : at beginning of text or right after a line feed
AtLineStart(s, p) == p = 1 \/ s[p - 1] = "\n"

\* (?m)$ : at end of text or right before a line feed
AtLineEnd(s, p) == p = Len(s) + 1 \/ s[p] = "\n"

RECURSIVE SpaceRunEnd(_, _)
\* the position after the longest run of \s starting at p
SpaceRunEnd(s, p) ==
    IF p <= Len(s) /\ IsSpace(s[p]) THEN SpaceRunEnd(s, p + 1) ELSE p

RECURSIVE NewlineRunEnd(_, _)
\* the position after the longest run of [\r\n] starting at p
NewlineRunEnd(s, p) ==
    IF p <= Len(s) /\ IsNewline(s[p]) THEN NewlineRunEnd(s, p + 1) ELSE p

\* ^\s*$[\r\n]* tried at p: the end of the preferred match, 0 when none.
\* \s* is greedy, so the longest run that leaves $ satisfied wins, and then
\* [\r\n]* takes all it can.
MatchBlankLine(s, p) ==
    IF ~AtLineStart(s, p) THEN 0
    ELSE LET ends == {k \in p..SpaceRunEnd(s, p) : AtLineEnd(s, k)}
         IN  IF ends = {} THEN 0
             ELSE NewlineRunEnd(s, CHOOSE k \in ends : \A j \in ends : j <= k)

\* an expression without its second alternative
NoTrailingMatch(s, p) == 0

\* [\r\n]+\s+\z tried at p: the end of the match (end of text), 0 when none
MatchTrailing(s, p) ==
    IF /\ p < Len(s)
       /\ IsNewline(s[p])
       /\ SpaceRunEnd(s, p) = Len(s) + 1
    THEN Len(s) + 1
    ELSE 0

\* the alternation tried at p: the first alternative that matches wins
MatchAt(s, p) ==
    IF MatchBlankLine(s, p) # 0 THEN MatchBlankLine(s, p) ELSE MatchTrailing(s, p)

RECURSIVE FindMatch(_, _)
\* leftmost match starting at or after p: <<start, end>>, <<0, 0>> when none
FindMatch(s, p) ==
    IF p > Len(s) + 1 THEN <<0, 0>>
    ELSE IF MatchAt(s, p) # 0 THEN <<p, MatchAt(s, p)>>
    ELSE FindMatch(s, p + 1)

RECURSIVE ReplaceLoop(_, _, _, _)
\* the loop of regexp.replaceAll with an empty replacement
ReplaceLoop(s, searchPos, lastMatchEnd, out) ==
    LET a == FindMatch(s, searchPos)
    IN  IF a[1] = 0 THEN out \o SubSeq(s, lastMatchEnd, Len(s))
        ELSE ReplaceLoop(s,
                         IF a[2] > searchPos THEN a[2] ELSE searchPos + 1,
                         a[2],
                         out \o SubSeq(s, lastMatchEnd, a[1] - 1))

\* a replacement that stops after the first match
ReplaceFirstOnly(s) ==
    LET a == FindMatch(s, 1)
    IN  IF a[1] = 0 THEN s
        ELSE SubSeq(s, 1, a[1] - 1) \o SubSeq(s, a[2], Len(s))

\* re.ReplaceAllString(string(data), "")
ReplaceAllString(s) == ReplaceLoop(s, 1, 1, <<>>)

----------------------------------------------------------------------------
(* The envelope templates (templates/*.templ, parsed once by init()).      *)
(* A template is a sequence of pieces: literal text or a field of the      *)
(* platformpackage value it is executed with.                              *)

Lit(text) == [lit |-> text]
Field(f) == [field |-> f]

\* templates/template.templ: the object wrapper, fields Name, Kind, Content
ObjectTempl ==
    <<Lit(<<"-">>), Field("Name"), Lit(<<"/">>), Field("Kind"), Lit(<<":", "\n">>),
      Field("Content")>>

\* templates/header.templ: field Name
HeaderTempl == <<Lit(<<"h", ":">>), Field("Name"), Lit(<<"\n">>)>>

\* templates/footer.templ: field Name; the text after the field is either
\* one line end or a line end followed by a blank line
FooterTempls ==
    { <<Lit(<<"f", ":">>), Field("Name"), Lit(<<"\n">>)>>,
      <<Lit(<<"f", ":">>), Field("Name"), Lit(<<"\n", "\n">>)>> }

RECURSIVE Render(_, _)
\* (*template.Template).Execute: the text written for value pkg
Render(templ, pkg) ==
    IF Len(templ) = 0 THEN <<>>
    ELSE LET piece == Head(templ)
         IN  (IF "lit" \in DOMAIN piece THEN piece.lit ELSE pkg[piece.field])
             \o Render(Tail(templ), pkg)

\* what Execute has written when it fails: nothing, or the text before the
\* first field
PartialRenders(templ, pkg) ==
    { <<>>, IF "lit" \in DOMAIN Head(templ) THEN Head(templ).lit ELSE <<>> }

----------------------------------------------------------------------------
(* Hook Filter, Kind Classifier, routing, indentation *)

HookMarker == <<"h", "e", "l", "m", ".", "s", "h", "/", "h", "o", "o", "k">>
YamlExt == <<".", "y", "a", "m", "l">>
CrdWord ==
    <<"C", "u", "s", "t", "o", "m", "R", "e", "s", "o", "u", "r", "c", "e",
      "D", "e", "f", "i", "n", "i", "t", "i", "o", "n">>
SecretWord == <<"S", "e", "c", "r", "e", "t">>

\* shouldSkipFile(file, dirPath); readOk: os.ReadFile returned no error
ShouldSkipFile(file, readOk) ==
    \/ file.isDir
    \/ ~readOk
    \/ Contains(file.content, HookMarker)

\* line 99 indexes [0] and [1] of strings.Split(file.Name(), "_")
ClassifyPanics(fname) == Len(Split(fname, "_")) < 2

\* lines 99-101: platformpackage.Kind
Classify(fname) ==
    TrimSuffix(Split(fname, "_")[1] \o <<"-">> \o Split(fname, "_")[2], YamlExt)

\* routing with Secret tested before CustomResourceDefinition
RouteSecretFirst(k) ==
    IF Contains(k, SecretWord) THEN "secret"
    ELSE IF Contains(k, CrdWord) THEN "crd"
    ELSE "object"

\* lines 114-120: the stream temp.Execute writes to
Route(k) ==
    IF Contains(k, CrdWord) THEN "crd"
    ELSE IF Contains(k, SecretWord) THEN "secret"
    ELSE "object"

\* the 16 spaces of the format string of line 111
IndentPrefix ==
    <<" ", " ", " ", " ", " ", " ", " ", " ", " ", " ", " ", " ", " ", " ", " ", " ">>

\* an indentation that leaves empty lines out
IndentLineSkipEmpty(line) ==
    IF line = <<>> THEN <<>> ELSE IndentPrefix \o line \o <<"\n">>

\* fmt.Sprintf("                %s\n", line)
IndentLine(line) == IndentPrefix \o line \o <<"\n">>

RECURSIVE WriteLines(_, _)
\* lines 110-112: the buffer after WriteString of every indented line
WriteLines(b, lines) ==
    IF Len(lines) = 0 THEN b
    ELSE WriteLines(b \o IndentLine(Head(lines)), Tail(lines))

\* a Reset that leaves the buffer as it is
ContentKeep(b) == b

\* platformpackage.Content.Reset()
ContentReset(b) == <<>>

\* joining the lines without the separator
JoinNoSeparator(content) == Join(Split(content, "\n"), "")

\* lines 146-149: contentToAppend
ContentToAppend(content) == Join(Split(content, "\n"), "\n")

----------------------------------------------------------------------------
(* The inputs: the entries of working/<name>, package names, contents *)

Streams == {"object", "crd", "secret", "packages"}

PackageNames == { <<"s">>, <<"p", "2">> }

\* config.Name of the object compiler runs
ConfigNames == { <<"s">> }

FileNames ==
    { <<"c", "_", "C", "u", "s", "t", "o", "m", "R", "e", "s", "o", "u", "r", "c",
        "e", "D", "e", "f", "i", "n", "i", "t", "i", "o", "n", "_", "f", ".", "y",
        "a", "m", "l">>,
      <<"s", "_", "S", "e", "c", "r", "e", "t", "_", "b", ".", "y", "a", "m", "l">>,
      <<"o", "_", "J", "o", "b", "_", "z", ".", "y", "a", "m", "l">>,
      <<"S", "e", "c", "r", "e", "t", "_", "C", "u", "s", "t", "o", "m", "R", "e",
        "s", "o", "u", "r", "c", "e", "D", "e", "f", "i", "n", "i", "t", "i", "o",
        "n", ".", "y", "a", "m", "l">>,
      <<"o", "_", "J", "o", "b", "_", "S", "e", "c", "r", "e", "t", ".", "y", "a",
        "m", "l">>,
      <<"R", "E", "A", "D", "M", "E">> }

FileContents ==
    { <<"a", "\n", "\n", "b", "\n">>,
      <<"h", "e", "l", "m", ".", "s", "h", "/", "h", "o", "o", "\n", "k">>,
      <<"k", ":", " ", "h", "e", "l", "m", ".", "s", "h", "/", "h", "o", "o", "k",
        "\n">> }

\* a directory entry: a sub-directory carries no content
Entries ==
    [name : FileNames, isDir : {FALSE}, content : FileContents]
    \cup [name : FileNames, isDir : {TRUE}, content : {<<>>}]

\* the characters of the file names, in byte order
ByteOrder ==
    <<".", "A", "C", "D", "E", "J", "M", "R", "S", "_", "a", "b", "c", "e", "f",
      "i", "l", "m", "n", "o", "r", "s", "t", "u", "y", "z">>

Byte(c) == CHOOSE i \in 1..Len(ByteOrder) : ByteOrder[i] = c

RECURSIVE NameLess(_, _)
\* a < b for Go strings
NameLess(a, b) ==
    IF Len(b) = 0 THEN FALSE
    ELSE IF Len(a) = 0 THEN TRUE
    ELSE IF Head(a) # Head(b) THEN Byte(Head(a)) < Byte(Head(b))
    ELSE NameLess(Tail(a), Tail(b))

RECURSIVE SortByName(_)
\* os.ReadDir returns the entries sorted by filename
SortByName(set) ==
    IF set = {} THEN <<>>
    ELSE LET first == CHOOSE e \in set :
                          \A f \in set \ {e} : NameLess(e.name, f.name)
         IN  <<first>> \o SortByName(set \ {first})

RECURSIVE DirectoriesUpTo(_)
\* the directories of at most n entries, no two of one name
DirectoriesUpTo(n) ==
    IF n = 0 THEN {{}}
    ELSE LET smaller == DirectoriesUpTo(n - 1)
         IN  smaller \cup
             UNION { { d \cup {e} :
                         e \in {x \in Entries : \A f \in d : f.name # x.name} } :
                     d \in smaller }

Directories == DirectoriesUpTo(MaxFiles)

RECURSIVE Strings(_, _)
\* the strings over alphabet of length at most n
Strings(alphabet, n) ==
    IF n = 0 THEN {<<>>}
    ELSE LET shorter == Strings(alphabet, n - 1)
         IN  shorter \cup { Append(t, c) : t \in shorter, c \in alphabet }

NormAlphabet == {"x", " ", "\n", "\r"}
PkgAlphabet == {"A", " ", "\n"}

----------------------------------------------------------------------------
(* State shared by the entry points *)

NoFiles == [st \in Streams |-> <<>>]

InitCommon ==
    /\ kind = <<>>
    /\ buf = <<>>
    /\ files = <<>>
    /\ idx = 0
    /\ open = {}
    /\ routed = <<>>
    /\ nerrs = <<>>
    /\ ret = "pending"
    /\ iofail = FALSE
    /\ hist = <<>>

\* the platformpackage value the templates are executed with
Pkg == [Name |-> name, Kind |-> kind, Content |-> buf]

\* log.Fatalln: os.Exit(1), deferred calls do not run
Fatal ==
    /\ pc' = "exited"
    /\ iofail' = TRUE
    /\ UNCHANGED open

\* os.OpenFile(path, O_TRUNC|O_CREATE|O_WRONLY) and its error check
OpenFile(st, here, next) ==
    /\ pc = here
    /\ \/ /\ fs' = [fs EXCEPT ![st] = <<>>]
          /\ open' = open \cup {st}
          /\ pc' = next
          /\ UNCHANGED iofail
       \/ /\ Fatal
          /\ UNCHANGED fs
    /\ UNCHANGED <<name, kind, buf, files, idx, data, routed, nerrs, ret, disk,
                   ftemp, hist>>

\* removeEmptyLines(path), its result dropped by the caller
RemoveEmptyLines(st, here, next) ==
    /\ pc = here
    /\ pc' = next
    /\ \/ \* os.ReadFile fails
          /\ nerrs' = Append(nerrs, st)
          /\ iofail' = TRUE
          /\ UNCHANGED <<fs, hist>>
       \/ \* os.WriteFile fails: before or after it truncated the file
          /\ nerrs' = Append(nerrs, st)
          /\ iofail' = TRUE
          /\ \/ UNCHANGED fs
             \/ fs' = [fs EXCEPT ![st] = <<>>]
          /\ UNCHANGED hist
       \/ /\ fs' = [fs EXCEPT ![st] = ReplaceAllString(fs[st])]
          /\ hist' = Append(hist, ReplaceAllString(fs[st]))
          /\ UNCHANGED <<nerrs, iofail>>
    /\ UNCHANGED <<name, kind, buf, files, idx, data, open, routed, ret, disk,
                   ftemp>>

\* the function returns: the deferred Close calls run, no value is returned
Return ==
    /\ pc = "return"
    /\ pc' = "returned"
    /\ open' = {}
    /\ ret' = "nothing"
    /\ UNCHANGED <<name, kind, buf, files, idx, data, fs, routed, nerrs, iofail,
                   disk, ftemp, hist>>

----------------------------------------------------------------------------
(* CreateCrossplaneObject(config) *)

Init ==
    /\ InitCommon
    /\ pc = "open_object"
    /\ name \in ConfigNames
    /\ disk \in Directories
    /\ data = <<>>
    /\ fs = NoFiles
    /\ ftemp = <<>>

OpenObject == OpenFile("object", "open_object", "open_crd")
OpenCrd == OpenFile("crd", "open_crd", "open_secret")
OpenSecret == OpenFile("secret", "open_secret", "readdir")

\* line 93: the error of os.ReadDir is dropped; on an error the listing is
\* the entries read before it
ReadDir ==
    /\ pc = "readdir"
    /\ \E n \in 0..Cardinality(disk) :
          /\ files' = SubSeq(SortByName(disk), 1, n)
          /\ iofail' = (iofail \/ n < Cardinality(disk))
    /\ idx' = 1
    /\ pc' = "loop"
    /\ UNCHANGED <<name, kind, buf, data, fs, open, routed, nerrs, ret, disk,
                   ftemp, hist>>

\* lines 95-96: shouldSkipFile says skip, continue
SkipFile ==
    /\ pc = "loop"
    /\ idx <= Len(files)
    /\ \E readOk \in BOOLEAN :
          /\ ShouldSkipFile(files[idx], readOk)
          /\ iofail' = (iofail \/ (~files[idx].isDir /\ ~readOk))
    /\ idx' = idx + 1
    /\ UNCHANGED <<pc, name, kind, buf, files, data, fs, open, routed, nerrs, ret,
                   disk, ftemp, hist>>

\* lines 95-101: shouldSkipFile says keep, the kind is computed; a name
\* without an underscore makes the index expression of line 99 panic, the
\* deferred Close calls run and the process dies
KeepFile ==
    /\ pc = "loop"
    /\ idx <= Len(files)
    /\ ~ShouldSkipFile(files[idx], TRUE)
    /\ IF ClassifyPanics(files[idx].name)
       THEN /\ pc' = "panicked"
            /\ open' = {}
            /\ UNCHANGED kind
       ELSE /\ pc' = "read"
            /\ kind' = Classify(files[idx].name)
            /\ UNCHANGED open
    /\ UNCHANGED <<name, buf, files, idx, data, fs, routed, nerrs, ret, iofail,
                   disk, ftemp, hist>>

\* lines 103-112: the content is read, split and written indented to the
\* buffer
ReadAndIndent ==
    /\ pc = "read"
    /\ \/ /\ data' = files[idx].content
          /\ buf' = WriteLines(buf, Split(files[idx].content, "\n"))
          /\ pc' = "execute"
          /\ UNCHANGED iofail
       \/ /\ Fatal
          /\ UNCHANGED <<data, buf>>
    /\ UNCHANGED <<name, kind, files, idx, fs, open, routed, nerrs, ret, disk,
                   ftemp, hist>>

\* lines 114-123: temp.Execute into the stream the kind selects
Execute ==
    /\ pc = "execute"
    /\ LET st == Route(kind)
       IN  \/ /\ fs' = [fs EXCEPT ![st] = @ \o Render(ObjectTempl, Pkg)]
              /\ routed' = Append(routed, [file |-> files[idx].name,
                                           stream |-> st,
                                           block |-> buf])
              /\ pc' = "reset"
              /\ UNCHANGED iofail
           \/ /\ \E part \in PartialRenders(ObjectTempl, Pkg) :
                     fs' = [fs EXCEPT ![st] = @ \o part]
              /\ Fatal
              /\ UNCHANGED routed
    /\ UNCHANGED <<name, kind, buf, files, idx, data, open, nerrs, ret, disk,
                   ftemp, hist>>

\* line 125 and the next iteration
Reset ==
    /\ pc = "reset"
    /\ buf' = ContentReset(buf)
    /\ idx' = idx + 1
    /\ pc' = "loop"
    /\ UNCHANGED <<name, kind, files, data, fs, open, routed, nerrs, ret, iofail,
                   disk, ftemp, hist>>

\* the range loop ends
LoopDone ==
    /\ pc = "loop"
    /\ idx > Len(files)
    /\ pc' = "norm_object"
    /\ UNCHANGED <<name, kind, buf, files, idx, data, fs, open, routed, nerrs, ret,
                   iofail, disk, ftemp, hist>>

NormObject == RemoveEmptyLines("object", "norm_object", "norm_crd")
NormCrd == RemoveEmptyLines("crd", "norm_crd", "norm_secret")
NormSecret == RemoveEmptyLines("secret", "norm_secret", "return")

Next ==
    \/ OpenObject
    \/ OpenCrd
    \/ OpenSecret
    \/ ReadDir
    \/ SkipFile
    \/ KeepFile
    \/ ReadAndIndent
    \/ Execute
    \/ Reset
    \/ LoopDone
    \/ NormObject
    \/ NormCrd
    \/ NormSecret
    \/ Return

Spec == Init /\ [][Next]_vars

----------------------------------------------------------------------------
(* CreatePackage(composition_name, content) *)

PkgInit ==
    /\ InitCommon
    /\ pc = "pkg_open"
    /\ name \in PackageNames
    /\ data \in Strings(PkgAlphabet, MaxPkgLen)
    /\ ftemp \in FooterTempls
    /\ fs = NoFiles
    /\ disk = {}

PkgOpen == OpenFile("packages", "pkg_open", "pkg_header")

\* template.Execute(outfile, platformpackage) and its error check
ExecuteInto(templ, here, next) ==
    /\ pc = here
    /\ \/ /\ fs' = [fs EXCEPT !["packages"] = @ \o Render(templ, Pkg)]
          /\ pc' = next
          /\ UNCHANGED <<iofail, open>>
       \/ /\ \E part \in PartialRenders(templ, Pkg) :
                 fs' = [fs EXCEPT !["packages"] = @ \o part]
          /\ Fatal
    /\ UNCHANGED <<name, kind, buf, files, idx, data, routed, nerrs, ret, disk,
                   ftemp, hist>>

\* line 142
PkgHeader == ExecuteInto(HeaderTempl, "pkg_header", "pkg_content")

\* lines 146-153: io.WriteString(outfile, contentToAppend); a failed write
\* has written nothing or a part
PkgContent ==
    /\ pc = "pkg_content"
    /\ \/ /\ fs' = [fs EXCEPT !["packages"] = @ \o ContentToAppend(data)]
          /\ pc' = "pkg_footer"
          /\ UNCHANGED <<iofail, open>>
       \/ /\ \E n \in {0, Len(ContentToAppend(data)) \div 2} :
                 fs' = [fs EXCEPT !["packages"] =
                            @ \o SubSeq(ContentToAppend(data), 1, n)]
          /\ Fatal
    /\ UNCHANGED <<name, kind, buf, files, idx, data, routed, nerrs, ret, disk,
                   ftemp, hist>>

\* line 155
PkgFooter == ExecuteInto(ftemp, "pkg_footer", "pkg_norm")

\* line 159
PkgNormalize == RemoveEmptyLines("packages", "pkg_norm", "return")

PkgNext ==
    \/ PkgOpen
    \/ PkgHeader
    \/ PkgContent
    \/ PkgFooter
    \/ PkgNormalize
    \/ Return

PkgSpec == PkgInit /\ [][PkgNext]_vars

----------------------------------------------------------------------------
(* removeEmptyLines applied to a file, and again to its own output *)

NormInit ==
    /\ InitCommon
    /\ pc = "norm_first"
    /\ name \in ConfigNames
    /\ data \in Strings(NormAlphabet, MaxNormLen)
    /\ fs = [NoFiles EXCEPT !["packages"] = data]
    /\ ftemp = <<>>
    /\ disk = {}

NormFirst == RemoveEmptyLines("packages", "norm_first", "norm_second")
NormSecond == RemoveEmptyLines("packages", "norm_second", "norm_done")

NormNext ==
    \/ NormFirst
    \/ NormSecond

NormSpec == NormInit /\ [][NormNext]_vars

----------------------------------------------------------------------------
(* Properties *)

IndentWidth == 16

Terminated == pc \in {"returned", "exited", "panicked"}

\* how often a file was rendered, over the three streams
TimesRendered(fname) ==
    Cardinality({i \in 1..Len(routed) : routed[i].file = fname})

\* the kind of a file name, as the Kind Classifier is specified
KindOfName(fname) ==
    LET segments == Split(fname, "_")
    IN  TrimSuffix(segments[1] \o <<"-">> \o segments[2], YamlExt)

\* the stream of a file name, as the routing rule is specified
StreamOfName(fname) ==
    IF Contains(KindOfName(fname), CrdWord) THEN "crd"
    ELSE IF Contains(KindOfName(fname), SecretWord) THEN "secret"
    ELSE "object"

\* block is the lines of content, each behind IndentWidth spaces and closed
\* by a line feed, in order
IsIndentedCopy(block, content) ==
    LET lines == Split(content, "\n")
        out == Split(block, "\n")
    IN  /\ Len(out) = Len(lines) + 1
        /\ out[Len(out)] = <<>>
        /\ \A i \in 1..Len(lines) :
              /\ Len(out[i]) = IndentWidth + Len(lines[i])
              /\ \A j \in 1..IndentWidth : out[i][j] = " "
              /\ SubSeq(out[i], IndentWidth + 1, Len(out[i])) = lines[i]

\* the lines of a text: a text that ends with a line feed has no line after it
NoBlankLine(s) ==
    LET lines == Split(s, "\n")
    IN  \A i \in 1..Len(lines) :
            (i < Len(lines) \/ lines[i] # <<>>) =>
                \E j \in 1..Len(lines[i]) : ~IsSpace(lines[i][j])

\* positions where a line end followed by white space only, and at least one
\* character of it, runs to end of text
BlankTails(s) ==
    {p \in 1..Len(s) - 1 : IsNewline(s[p]) /\ \A q \in p..Len(s) : IsSpace(s[q])}

\* s without its blank tail
TrimBlankTail(s) ==
    IF BlankTails(s) = {} THEN s
    ELSE SubSeq(s, 1, (CHOOSE p \in BlankTails(s) : \A q \in BlankTails(s) : p <= q) - 1)

HasPrefix(s, prefix) ==
    /\ Len(s) >= Len(prefix)
    /\ SubSeq(s, 1, Len(prefix)) = prefix

RenderedHeader == Render(HeaderTempl, Pkg)
RenderedFooter == Render(ftemp, Pkg)

\* C1: when the call ends with no I/O failure, every file without the hook
\* marker has been rendered into exactly one stream and every other entry
\* into none.
C1_EveryKeptFileRenderedOnce ==
    (Terminated /\ ~iofail) =>
        \A e \in disk :
            TimesRendered(e.name) =
                IF ~e.isDir /\ ~Contains(e.content, HookMarker) THEN 1 ELSE 0

\* C2: every rendered file went to the stream its name alone selects:
\* CustomResourceDefinition before Secret before the generic object stream.
C2_RoutedByKindOfName ==
    /\ \A i \in 1..Len(routed) : routed[i].stream = StreamOfName(routed[i].file)
    /\ pc = "execute" => kind = KindOfName(files[idx].name)

C2_Witness ==
    \E i \in 1..Len(routed) :
        /\ routed[i].stream = "crd"
        /\ Contains(KindOfName(routed[i].file), SecretWord)
        /\ Len(routed) = 2

\* C3: a second successful normalization of a normalized file leaves it as
\* it is.
C3_NormalizeIdempotent == Len(hist) = 2 => hist[2] = hist[1]

C3_Witness == Len(hist) = 2 /\ hist[1] # data /\ hist[1] # <<>>

\* C4: the package artifact is header, then the content verbatim, then
\* footer, written in that order; after a successful normalization it begins
\* with the header and ends with the footer less its blank tail.
C4_HeaderContentFooter ==
    /\ pc = "pkg_content" => fs["packages"] = RenderedHeader
    /\ pc = "pkg_footer" => fs["packages"] = RenderedHeader \o data
    /\ pc = "pkg_norm" =>
           fs["packages"] = RenderedHeader \o data \o RenderedFooter
    /\ (pc \in {"return", "returned"} /\ nerrs = <<>>) =>
           /\ HasPrefix(fs["packages"], RenderedHeader)
           /\ HasSuffix(fs["packages"], TrimBlankTail(RenderedFooter))
           /\ Len(fs["packages"]) >=
                  Len(RenderedHeader) + Len(TrimBlankTail(RenderedFooter))

C4_Witness ==
    /\ pc = "returned"
    /\ nerrs = <<>>
    /\ Contains(data, <<"\n", "\n">>)
    /\ ~HasSuffix(fs["packages"], RenderedFooter)

\* C5 as stated: a normalized file has no white-space-only line and no white
\* space right before end of file.
C5_NoBlankLineNoTrailingSpace ==
    \A i \in 1..Len(hist) :
        /\ NoBlankLine(hist[i])
        /\ hist[i] = <<>> \/ ~IsSpace(hist[i][Len(hist[i])])

\* C5 amended: a normalized file has no white-space-only line and no blank
\* tail (a line end followed by more white space up to end of file).
C5_NoBlankLineNoBlankTail ==
    \A i \in 1..Len(hist) :
        /\ NoBlankLine(hist[i])
        /\ BlankTails(hist[i]) = {}

C5_Witness ==
    /\ Len(hist) >= 1
    /\ hist[1] # data
    /\ hist[1] # <<>>
    /\ hist[1][Len(hist[1])] = "\n"

\* C6: the block handed to the object template is the lines of the content,
\* each behind 16 spaces, as many and in the same order.
C6_IndentedBlock == pc = "execute" => IsIndentedCopy(buf, files[idx].content)

C6_Witness ==
    /\ pc = "execute"
    /\ Len(Split(files[idx].content, "\n")) = 4
    /\ Len(routed) = 1

\* C7: a call that returns after a failed normalization hands the error to
\* its caller.
C7_NormalizeErrorReturned == (pc = "returned" /\ nerrs # <<>>) => ret = "error"

\* C8: when the call has ended, on any path, no handle it opened is open.
C8_HandlesClosedOnEveryExit == Terminated => open = {}

\* C9: the buffer is empty when the indentation of a file begins, and every
\* rendered block is the indented content of its own file.
C9_BufferEmptyAtIndent ==
    /\ pc \in {"loop", "read"} => buf = <<>>
    /\ \A i \in 1..Len(routed) :
           \E e \in disk :
               /\ e.name = routed[i].file
               /\ IsIndentedCopy(routed[i].block, e.content)

C9_Witness == pc = "read" /\ Len(routed) = 1 /\ idx = 2

\* C10: a kept file named without an underscore causes no out-of-range
\* access: no run ends in the panic of the index expression.
C10_NoOutOfRangeAccess == pc # "panicked"

====
